---- MODULE Spec2Model ----
(***************************************************************************)
(* A model of src/main.rs: a minimal httpie.  Text is modelled as a        *)
(* sequence of one-character strings, so that splitting, scanning and      *)
(* line breaking are computed character by character as the code does.     *)
(***************************************************************************)
EXTENDS Integers, Sequences, FiniteSets, TLC

VARIABLES kvIn, kvRes, urlIn, urlRes, argv, server, pc, opts, sent, reqBody,
          mime, out, exitCode

vars == <<kvIn, kvRes, urlIn, urlRes, argv, server, pc, opts, sent, reqBody,
          mime, out, exitCode>>

(* ---------------------------------------------------------------- bounds *)

\* Longest key=value token drawn as an input of parse_kv_pair.
MaxLen == 5
\* Most key=value arguments on a post command line.
MaxPairs == 2
\* Most headers in a response.
MaxHeaders == 2
\* Longest response body, in characters.
MaxBody == 2

(* ------------------------------------------------------------------ text *)

RECURSIVE StrsOfLen(_, _)
StrsOfLen(A, n) ==
    IF n = 0 THEN {<<>>}
    ELSE {<<c>> \o t : c \in A, t \in StrsOfLen(A, n - 1)}

StrsUpTo(A, n) == UNION {StrsOfLen(A, i) : i \in 0..n}

RECURSIVE SeqsOfLen(_, _)
SeqsOfLen(S, n) ==
    IF n = 0 THEN {<<>>}
    ELSE {<<x>> \o t : x \in S, t \in SeqsOfLen(S, n - 1)}

SeqsUpTo(S, n) == UNION {SeqsOfLen(S, i) : i \in 0..n}

Contains(s, c) == \E i \in 1..Len(s) : s[i] = c

\* Index of the first occurrence of c in s, or Len(s) + 1 when there is none.
RECURSIVE FindFrom(_, _, _)
FindFrom(s, c, i) ==
    IF i > Len(s) THEN Len(s) + 1
    ELSE IF s[i] = c THEN i
    ELSE FindFrom(s, c, i + 1)

(* ------------------------------------------------- KvPair, parse_kv_pair *)

Ok(val) == [ok |-> TRUE, val |-> val]
Err(msg) == [ok |-> FALSE, msg |-> msg]

KvPair(k, v) == [k |-> k, v |-> v]

\* str::split('='): the pieces between the separators, in order.  A string
\* with n separators yields n + 1 pieces (the empty string yields one).
RECURSIVE split(_, _)
split(s, c) ==
    LET i == FindFrom(s, c, 1)
    IN  IF i > Len(s) THEN <<s>>
        ELSE <<SubSeq(s, 1, i - 1)>> \o split(SubSeq(s, i + 1, Len(s)), c)

\* format!("Failed to parse {}", s)
FailedToParse(s) == <<"Failed to parse ">> \o s

\* A slip of from_str: splitn(2, '='), which keeps the whole remainder as v.
from_str_rest(s) ==
    LET i == FindFrom(s, "=", 1)
    IN  IF i > Len(s) THEN Err(FailedToParse(s))
        ELSE Ok(KvPair(SubSeq(s, 1, i - 1), SubSeq(s, i + 1, Len(s))))

\* A slip of from_str: an empty value counts as missing.
from_str_nonempty(s) ==
    LET it == split(s, "=")
    IN  IF Len(it) < 2 \/ it[2] = <<>> THEN Err(FailedToParse(s))
        ELSE Ok(KvPair(it[1], it[2]))

\* KvPair::from_str: the first two results of the split iterator; a missing
\* one is the error.
from_str(s) ==
    LET it == split(s, "=")
    IN  IF Len(it) < 1 THEN Err(FailedToParse(s))
        ELSE IF Len(it) < 2 THEN Err(FailedToParse(s))
        ELSE Ok(KvPair(it[1], it[2]))

parse_kv_pair(s) == from_str(s)

KvAlphabet == {"a", "b", "="}

\* The tokens of the unit test and of the documented edge cases.
KvExamples ==
    { <<"a">>, <<"a", "=", "1">>, <<"b", "=">>, <<"=", "x">>,
      <<"a", "=", "b", "=", "c">> }

KvInputs == StrsUpTo(KvAlphabet, MaxLen) \cup KvExamples

\* The result slot of a validator that has not been called yet.
NotRun == [ok |-> FALSE, msg |-> <<"not run">>]

(* ------------------------------------------------------- Url, parse_url *)

Uppers == <<"A", "B", "C", "D", "E", "F", "G", "H", "I", "J", "K", "L", "M",
            "N", "O", "P", "Q", "R", "S", "T", "U", "V", "W", "X", "Y", "Z">>
Lowers == <<"a", "b", "c", "d", "e", "f", "g", "h", "i", "j", "k", "l", "m",
            "n", "o", "p", "q", "r", "s", "t", "u", "v", "w", "x", "y", "z">>
Digits == {"0", "1", "2", "3", "4", "5", "6", "7", "8", "9"}

IsUpper(c) == \E i \in 1..26 : Uppers[i] = c
IsAlpha(c) == \E i \in 1..26 : Uppers[i] = c \/ Lowers[i] = c
IsSchemeChar(c) == IsAlpha(c) \/ c \in Digits \/ c \in {"+", "-", "."}

to_ascii_lowercase(c) ==
    IF IsUpper(c) THEN Lowers[CHOOSE i \in 1..26 : Uppers[i] = c] ELSE c

Lower(s) == [i \in 1..Len(s) |-> to_ascii_lowercase(s[i])]

\* The url parser first trims spaces (and C0 controls) at both ends.
RECURSIVE TrimStart(_)
TrimStart(s) ==
    IF s # <<>> /\ Head(s) = " " THEN TrimStart(Tail(s)) ELSE s

RECURSIVE TrimEnd(_)
TrimEnd(s) ==
    IF s # <<>> /\ s[Len(s)] = " " THEN TrimEnd(SubSeq(s, 1, Len(s) - 1)) ELSE s

Trim(s) == TrimEnd(TrimStart(s))

RECURSIVE SkipSlashes(_)
SkipSlashes(s) ==
    IF s # <<>> /\ Head(s) = "/" THEN SkipSlashes(Tail(s)) ELSE s

\* Length of the scheme of s (the characters before its ':'), or 0 when s
\* does not start with a scheme.
RECURSIVE SchemeScan(_, _)
SchemeScan(s, i) ==
    IF i > Len(s) THEN 0
    ELSE IF s[i] = ":" THEN i - 1
    ELSE IF IsSchemeChar(s[i]) THEN SchemeScan(s, i + 1)
    ELSE 0

SchemeLen(s) == IF s # <<>> /\ IsAlpha(s[1]) THEN SchemeScan(s, 2) ELSE 0

\* The schemes with a mandatory host (the url crate's SchemeType::SpecialNotFile).
SpecialSchemes ==
    { <<"h", "t", "t", "p">>, <<"h", "t", "t", "p", "s">>, <<"w", "s">>,
      <<"w", "s", "s">>, <<"f", "t", "p">> }

Url(scheme, hasHost, host, path) ==
    [scheme |-> scheme, hasHost |-> hasHost, host |-> host, path |-> path]

\* Url::parse with no base URL, for inputs made of letters, digits, '.',
\* ':', '/' and spaces at the ends (no userinfo, port, query or fragment,
\* and no file: scheme).
UrlParse(input) ==
    LET s == Trim(input)
        n == SchemeLen(s)
        scheme == Lower(SubSeq(s, 1, n))
        rest == SubSeq(s, n + 2, Len(s))
    IN  IF n = 0 THEN Err(<<"relative URL without a base">>)
        ELSE IF scheme \in SpecialSchemes
        THEN LET auth == SkipSlashes(rest)
                 e == FindFrom(auth, "/", 1)
                 host == Lower(SubSeq(auth, 1, e - 1))
                 path == SubSeq(auth, e, Len(auth))
             IN  IF host = <<>> THEN Err(<<"empty host">>)
                 ELSE Ok(Url(scheme, TRUE, host,
                             IF path = <<>> THEN <<"/">> ELSE path))
        ELSE IF Len(rest) >= 2 /\ rest[1] = "/" /\ rest[2] = "/"
        THEN LET auth == SubSeq(rest, 3, Len(rest))
                 e == FindFrom(auth, "/", 1)
             IN  Ok(Url(scheme, TRUE, Lower(SubSeq(auth, 1, e - 1)),
                        SubSeq(auth, e, Len(auth))))
        ELSE Ok(Url(scheme, FALSE, <<>>, rest))

\* Url's Display: the normalised serialisation.
UrlToString(u) ==
    u.scheme \o <<":">> \o (IF u.hasHost THEN <<"/", "/">> \o u.host ELSE <<>>)
             \o u.path

\* A slip of parse_url: the parsed Url converted back to a string.
parse_url_normalised(s) ==
    LET r == UrlParse(s)
    IN  IF ~r.ok THEN r ELSE Ok(UrlToString(r.val))

\* parse_url: s.parse::<Url>()? only checks; the result is s itself.
parse_url(s) ==
    LET r == UrlParse(s)
    IN  IF ~r.ok THEN r ELSE Ok(s)

UrlSchemes ==
    { <<>>, <<"h", "t", "t", "p">>, <<"H", "T", "T", "P">>,
      <<"h", "t", "t", "p", "s">>, <<"x">>, <<"1", "x">>,
      <<" ", "h", "t", "t", "p">> }
UrlSeps == { <<>>, <<":">>, <<":", "/">>, <<":", "/", "/">> }
UrlHosts ==
    { <<>>, <<"a", "b", "c">>, <<"a", "b", "c", ".", "x", "y", "z">>,
      <<"A", "B", "C", ".", "x", "y", "z">>,
      <<"h", "t", "t", "p", "b", "i", "n", ".", "o", "r", "g">> }
UrlPaths == { <<>>, <<"/">>, <<"/", "p", "o", "s", "t">> }

\* Every concatenation scheme . separator . host . path: it holds "abc",
\* "http://abc.xyz" and "https://httpbin.org/post" of the unit test.
UrlInputs ==
    {a \o b \o c \o d : a \in UrlSchemes, b \in UrlSeps, c \in UrlHosts,
                        d \in UrlPaths}

(* ------------------------------------------- the validators on their own *)

InitIdleMain ==
    /\ argv = [cmd |-> "none", args |-> <<>>]
    /\ server = [kind |-> "none"]
    /\ pc = "idle"
    /\ opts = [cmd |-> "none"]
    /\ sent = 0
    /\ reqBody = <<>>
    /\ mime = [some |-> FALSE]
    /\ out = <<>>
    /\ exitCode = -1

mainVars == <<argv, server, pc, opts, sent, reqBody, mime, out, exitCode>>

InitKv ==
    /\ kvIn \in KvInputs
    /\ kvRes = NotRun
    /\ urlIn = <<>>
    /\ urlRes = NotRun
    /\ InitIdleMain

\* One call parse_kv_pair(kvIn).
ParseKv ==
    /\ kvRes = NotRun
    /\ kvRes' = parse_kv_pair(kvIn)
    /\ UNCHANGED <<kvIn, urlIn, urlRes>>
    /\ UNCHANGED mainVars

SpecKv == InitKv /\ [][ParseKv]_vars

InitUrl ==
    /\ urlIn \in UrlInputs
    /\ urlRes = NotRun
    /\ kvIn = <<>>
    /\ kvRes = NotRun
    /\ InitIdleMain

\* One call parse_url(urlIn).
ParseUrl ==
    /\ urlRes = NotRun
    /\ urlRes' = parse_url(urlIn)
    /\ UNCHANGED <<urlIn, kvIn, kvRes>>
    /\ UNCHANGED mainVars

SpecUrl == InitUrl /\ [][ParseUrl]_vars

(* ------------------------------------------------ the command line, clap *)

\* Opts::parse over the derived parser: `get <url>` takes exactly one
\* positional that passes parse_url; `post <url> [k=v]...` takes a URL and
\* any number of tokens that each pass parse_kv_pair.  A usage error makes
\* clap exit with status 2, --version and --help with status 0.
OptsParse(a) ==
    IF a.cmd \in {"--version", "--help"} THEN [exit |-> 0]
    ELSE IF a.cmd = "get"
    THEN IF Len(a.args) = 1 /\ parse_url(a.args[1]).ok
         THEN [exit |-> -1,
               opts |-> [cmd |-> "get", url |-> parse_url(a.args[1]).val,
                         body |-> <<>>]]
         ELSE [exit |-> 2]
    ELSE IF a.cmd = "post"
    THEN IF /\ Len(a.args) >= 1
            /\ parse_url(a.args[1]).ok
            /\ \A i \in 2..Len(a.args) : parse_kv_pair(a.args[i]).ok
         THEN [exit |-> -1,
               opts |-> [cmd |-> "post", url |-> parse_url(a.args[1]).val,
                         body |-> [i \in 1..(Len(a.args) - 1) |->
                                      parse_kv_pair(a.args[i + 1]).val]]]
         ELSE [exit |-> 2]
    ELSE [exit |-> 2]

(* ------------------------------------------------------ post: the body *)

\* A slip of insert: entry(k).or_insert(v), which keeps the first value.
insert_if_absent(m, k, v) ==
    [x \in (DOMAIN m) \cup {k} |-> IF x \in DOMAIN m THEN m[x] ELSE v]

\* HashMap::insert: the key is added, or its value replaced.
insert(m, k, v) ==
    [x \in (DOMAIN m) \cup {k} |-> IF x = k THEN v ELSE m[x]]

\* HashMap::new()
EmptyMap == <<>>

\* The loop of post: for pair in args.body.iter() { body.insert(k, v) }.
RECURSIVE BuildBody(_, _)
BuildBody(m, pairs) ==
    IF pairs = <<>> THEN m
    ELSE BuildBody(insert(m, Head(pairs).k, Head(pairs).v), Tail(pairs))

(* --------------------------------------------------------- the response *)

\* A header value is a sequence of tokens: words, "/" and ";", and "0xFF"
\* for a byte that is not visible ASCII.

\* HeaderValue::to_str: fails on a byte outside visible ASCII.
to_str(v) ==
    IF \E i \in 1..Len(v) : v[i] = "0xFF" THEN Err(<<"ToStrError">>) ELSE Ok(v)

IsWord(tok) == tok \notin {"/", ";", "0xFF"}

Mime(type, subtype, params) ==
    [type |-> type, subtype |-> subtype, params |-> params]

\* str::parse::<Mime>: type "/" subtype, then any number of ";" parameter.
MimeParse(v) ==
    IF /\ Len(v) >= 3
       /\ Len(v) % 2 = 1
       /\ IsWord(v[1]) /\ v[2] = "/" /\ IsWord(v[3])
       /\ \A i \in 4..Len(v) : IF i % 2 = 0 THEN v[i] = ";" ELSE IsWord(v[i])
    THEN Ok(Mime(v[1], v[3],
                 [i \in 1..((Len(v) - 3) \div 2) |-> v[3 + 2 * i]]))
    ELSE Err(<<"FromStrError">>)

APPLICATION_JSON == Mime("application", "json", <<>>)
TEXT_HTML == Mime("text", "html", <<>>)

\* Mime's ==: type, subtype and parameters all take part.
MimeEq(a, b) == a.type = b.type /\ a.subtype = b.subtype /\ a.params = b.params

CONTENT_TYPE == "content-type"

\* HeaderMap::get: the first value under the name, if any.
HeaderGet(hs, name) ==
    IF \E i \in 1..Len(hs) : hs[i].name = name
    THEN [some |-> TRUE,
          val |-> hs[CHOOSE i \in 1..Len(hs) :
                        /\ hs[i].name = name
                        /\ \A j \in 1..(i - 1) : hs[j].name # name].value]
    ELSE [some |-> FALSE]

\* get_content_type: headers().get(CONTENT_TYPE)
\*     .map(|v| v.to_str().unwrap().parse().unwrap()); either unwrap panics.
get_content_type(hs) ==
    LET h == HeaderGet(hs, CONTENT_TYPE)
    IN  IF ~h.some THEN [panic |-> FALSE, some |-> FALSE]
        ELSE IF ~to_str(h.val).ok THEN [panic |-> TRUE]
        ELSE IF ~MimeParse(to_str(h.val).val).ok THEN [panic |-> TRUE]
        ELSE [panic |-> FALSE, some |-> TRUE,
              val |-> MimeParse(to_str(h.val).val).val]

(* ------------------------------------------------------------ rendering *)

\* Standard output is the sequence of the items printed, each tagged with
\* the section that printed it.

\* print_status: println!("{}\n", status): the line, then an empty line.
print_status(o, r) ==
    o \o << [sec |-> "status", version |-> "HTTP/1.1", status |-> r.status],
            [sec |-> "blank"] >>

\* print_headers: one line per header in iteration order, then print!("\n").
print_headers(o, r) ==
    o \o [i \in 1..Len(r.headers) |->
             [sec |-> "header", name |-> r.headers[i].name,
              value |-> r.headers[i].value]]
      \o << [sec |-> "blank"] >>

\* LinesWithEndings::from(s): the lines of s, each with its "\n" if it has one.
RECURSIVE LinesWithEndings(_)
LinesWithEndings(s) ==
    IF s = <<>> THEN <<>>
    ELSE LET i == FindFrom(s, "\n", 1)
         IN  IF i > Len(s) THEN <<s>>
             ELSE <<SubSeq(s, 1, i)>> \o LinesWithEndings(SubSeq(s, i + 1, Len(s)))

\* as_24_bit_terminal_escaped over the highlighted ranges of one line: colour
\* escapes, then the text of the line (taken as a single range).
Escaped(line, ext) ==
    << IF ext = "json" THEN "ESC[json]" ELSE "ESC[html]" >> \o line

\* print_syntect: print!("{}", escaped) for every line of s.
print_syntect(o, s, ext) ==
    LET ls == LinesWithEndings(s)
    IN  o \o [i \in 1..Len(ls) |-> [sec |-> "body", text |-> Escaped(ls[i], ext)]]

\* print_body: JSON and HTML go to the highlighter, the rest to println!.
print_body(o, m, body) ==
    IF m.some /\ MimeEq(m.val, APPLICATION_JSON) THEN print_syntect(o, body, "json")
    ELSE IF m.some /\ MimeEq(m.val, TEXT_HTML) THEN print_syntect(o, body, "html")
    ELSE o \o << [sec |-> "body", text |-> body \o <<"\n">>] >>

(* ------------------------------------------------------------- main *)

U_abc == <<"a", "b", "c">>
U_http == <<"h", "t", "t", "p", ":", "/", "/", "a", "b", "c", ".", "x", "y", "z">>

T_a == <<"a">>
T_a1 == <<"a", "=", "1">>
T_a2 == <<"a", "=", "2">>
T_b1 == <<"b", "=", "1">>

MainTokens == {T_a, T_a1, T_a2, T_b1}

Argv(cmd, args) == [cmd |-> cmd, args |-> args]

\* Command lines for the runs that study the response.
ArgvSmall ==
    { Argv("get", <<U_http>>), Argv("get", <<U_abc>>), Argv("get", <<>>),
      Argv("get", <<U_http, T_a1>>), Argv("post", <<U_http>>),
      Argv("post", <<U_http, T_a1>>), Argv("post", <<U_http, T_a>>),
      Argv("post", <<U_abc, T_a1>>), Argv("put", <<U_http>>),
      Argv("--version", <<>>) }

\* Command lines for the runs that study the body of post.
ArgvPost ==
    { Argv("post", <<u>> \o b) :
          u \in {U_http, U_abc}, b \in SeqsUpTo(MainTokens, MaxPairs) }
    \cup { Argv("get", <<U_http>>) }

Header(name, value) == [name |-> name, value |-> value]

CtValues ==
    { <<"application", "/", "json">>,
      <<"application", "/", "json", ";", "charset=utf-8">>,
      <<"text", "/", "html">>,
      <<"text", "/", "html", ";", "charset=utf-8">>,
      <<"text", "/", "plain">>,
      <<"garbage">>,
      <<"0xFF">> }

HeaderSet ==
    {Header(CONTENT_TYPE, v) : v \in CtValues} \cup {Header("server", <<"srv">>)}

Respond(status, headers, body, bodyOk) ==
    [kind |-> "respond", status |-> status, headers |-> headers,
     body |-> body, bodyOk |-> bodyOk]

Refuse == [kind |-> "refuse"]

\* What the network does with the request: the send fails, or a response
\* arrives whose body can (bodyOk) or cannot be read to its end.
Servers ==
    {Refuse} \cup
    { Respond(st, hs, b, bok) :
          st \in {200, 404}, hs \in SeqsUpTo(HeaderSet, MaxHeaders),
          b \in StrsUpTo({"x", "\n"}, MaxBody), bok \in BOOLEAN }

ServersSmall ==
    { Refuse,
      Respond(200, <<Header(CONTENT_TYPE, <<"application", "/", "json">>)>>,
              <<"x">>, TRUE),
      Respond(200, <<Header(CONTENT_TYPE, <<"garbage">>)>>, <<"x">>, TRUE),
      Respond(404, <<>>, <<"x", "\n">>, FALSE),
      Respond(404, <<>>, <<"x", "\n">>, TRUE) }

InitIdleValidators ==
    /\ kvIn = <<>>
    /\ kvRes = NotRun
    /\ urlIn = <<>>
    /\ urlRes = NotRun

NoServer == [kind |-> "none"]

InitMain(argvs) ==
    /\ argv \in argvs
    /\ server = NoServer
    /\ pc = "start"
    /\ opts = [cmd |-> "none"]
    /\ sent = 0
    /\ reqBody = EmptyMap
    /\ mime = [some |-> FALSE]
    /\ out = <<>>
    /\ exitCode = -1
    /\ InitIdleValidators

Init == InitMain(ArgvSmall)

InitPost == InitMain(ArgvPost)

validatorVars == <<kvIn, kvRes, urlIn, urlRes>>

\* let opts: Opts = Opts::parse();
ParseArgs ==
    /\ pc = "start"
    /\ LET r == OptsParse(argv)
       IN  IF r.exit = -1
           THEN /\ opts' = r.opts
                /\ pc' = "parsed"
                /\ exitCode' = exitCode
           ELSE /\ opts' = opts
                /\ pc' = "exit"
                /\ exitCode' = r.exit
    /\ UNCHANGED <<argv, server, sent, reqBody, mime, out>>
    /\ UNCHANGED validatorVars

\* get: client.get(&args.url).send(); the network answers as one of servers.
get(servers) ==
    /\ pc = "parsed"
    /\ opts.cmd = "get"
    /\ sent' = sent + 1
    /\ server' \in servers
    /\ pc' = "sending"
    /\ UNCHANGED <<argv, opts, reqBody, mime, out, exitCode>>
    /\ UNCHANGED validatorVars

\* post: the body map is built, then
\* client.post(&args.url).json(&body).send(); the network answers as one of
\* servers.
post(servers) ==
    /\ pc = "parsed"
    /\ opts.cmd = "post"
    /\ reqBody' = BuildBody(EmptyMap, opts.body)
    /\ sent' = sent + 1
    /\ server' \in servers
    /\ pc' = "sending"
    /\ UNCHANGED <<argv, opts, mime, out, exitCode>>
    /\ UNCHANGED validatorVars

\* A slip of SendErr: the request is issued again after a failed send.
SendErrRetry ==
    /\ pc = "sending"
    /\ server.kind = "refuse"
    /\ pc' = "parsed"
    /\ UNCHANGED <<argv, server, opts, sent, reqBody, mime, out, exitCode>>
    /\ UNCHANGED validatorVars

\* send().await? fails: the error reaches main, which exits with status 1.
SendErr ==
    /\ pc = "sending"
    /\ server.kind = "refuse"
    /\ pc' = "exit"
    /\ exitCode' = 1
    /\ UNCHANGED <<argv, server, opts, sent, reqBody, mime, out>>
    /\ UNCHANGED validatorVars

\* A slip of PrintRespHead: the headers are printed before the status.
PrintRespHeadSwapped ==
    /\ pc = "sending"
    /\ server.kind = "respond"
    /\ LET ct == get_content_type(server.headers)
       IN  /\ out' = print_status(print_headers(out, server), server)
           /\ IF ct.panic
              THEN /\ pc' = "exit"
                   /\ exitCode' = 101
                   /\ mime' = mime
              ELSE /\ pc' = "text"
                   /\ exitCode' = exitCode
                   /\ mime' = ct
    /\ UNCHANGED <<argv, server, opts, sent, reqBody>>
    /\ UNCHANGED validatorVars

\* send().await? succeeds and print_resp runs up to its await: print_status,
\* print_headers, get_content_type.  A panic in get_content_type unwinds
\* through main: the process exits with status 101.
PrintRespHead ==
    /\ pc = "sending"
    /\ server.kind = "respond"
    /\ LET ct == get_content_type(server.headers)
       IN  /\ out' = print_headers(print_status(out, server), server)
           /\ IF ct.panic
              THEN /\ pc' = "exit"
                   /\ exitCode' = 101
                   /\ mime' = mime
              ELSE /\ pc' = "text"
                   /\ exitCode' = exitCode
                   /\ mime' = ct
    /\ UNCHANGED <<argv, server, opts, sent, reqBody>>
    /\ UNCHANGED validatorVars

\* resp.text().await? fails: the error reaches main, which exits with status 1.
TextErr ==
    /\ pc = "text"
    /\ ~server.bodyOk
    /\ pc' = "exit"
    /\ exitCode' = 1
    /\ UNCHANGED <<argv, server, opts, sent, reqBody, mime, out>>
    /\ UNCHANGED validatorVars

\* resp.text().await? succeeds, print_body runs, print_resp and main return
\* Ok(()): the process exits with status 0.
PrintRespBody ==
    /\ pc = "text"
    /\ server.bodyOk
    /\ out' = print_body(out, mime, server.body)
    /\ pc' = "exit"
    /\ exitCode' = 0
    /\ UNCHANGED <<argv, server, opts, sent, reqBody, mime>>
    /\ UNCHANGED validatorVars

Next ==
    \/ ParseArgs
    \/ get(Servers)
    \/ post(Servers)
    \/ SendErr
    \/ PrintRespHead
    \/ TextErr
    \/ PrintRespBody

Spec == Init /\ [][Next]_vars

NextPost ==
    \/ ParseArgs
    \/ get(ServersSmall)
    \/ post(ServersSmall)
    \/ SendErr
    \/ PrintRespHead
    \/ TextErr
    \/ PrintRespBody

SpecPost == InitPost /\ [][NextPost]_vars

(* ------------------------------------------------- claims: the validators *)

KvDone == kvRes # NotRun

\* C1: parse_kv_pair(s) fails, with the message "Failed to parse <s>", if and
\* only if s holds no '='; otherwise k is the text before the first '=' and v
\* the text between the first '=' and the next '=' (or the end of s):
\* "a=1" gives {a,1}, "b=" gives {b,""}, "=x" gives {"",x}, "a=b=c" gives {a,b}.
C1_ParseKvPair ==
    KvDone =>
        /\ kvRes.ok <=> Contains(kvIn, "=")
        /\ ~kvRes.ok => kvRes.msg = <<"Failed to parse ">> \o kvIn
        /\ kvRes.ok =>
              \E i \in 1..Len(kvIn), j \in 2..(Len(kvIn) + 1) :
                  /\ kvIn[i] = "="
                  /\ \A m \in 1..(i - 1) : kvIn[m] # "="
                  /\ j > i
                  /\ j <= Len(kvIn) => kvIn[j] = "="
                  /\ \A m \in (i + 1)..(j - 1) : kvIn[m] # "="
                  /\ kvRes.val = KvPair(SubSeq(kvIn, 1, i - 1),
                                        SubSeq(kvIn, i + 1, j - 1))
        /\ kvIn = <<"a">> => ~kvRes.ok
        /\ kvIn = <<"a", "=", "1">> => kvRes = Ok(KvPair(<<"a">>, <<"1">>))
        /\ kvIn = <<"b", "=">> => kvRes = Ok(KvPair(<<"b">>, <<>>))
        /\ kvIn = <<"=", "x">> => kvRes = Ok(KvPair(<<>>, <<"x">>))
        /\ kvIn = <<"a", "=", "b", "=", "c">>
              => kvRes = Ok(KvPair(<<"a">>, <<"b">>))

\* A token with two '=' has been parsed.
C1_Witness ==
    /\ KvDone
    /\ kvRes.ok
    /\ kvIn = <<"a", "=", "b", "=", "c">>

\* kvIn read as k + "=" + v with its i-th character as the separator.
KeyAt(i) == SubSeq(kvIn, 1, i - 1)
ValueAt(i) == SubSeq(kvIn, i + 1, Len(kvIn))

\* C2 as stated: for every (k, v) where k holds no '=' (v unrestricted),
\* parse_kv_pair(k + "=" + v) succeeds and yields exactly KvPair{k, v}.
C2_RoundTripAnyValue ==
    KvDone =>
        \A i \in 1..Len(kvIn) :
            (kvIn[i] = "=" /\ ~Contains(KeyAt(i), "="))
                => kvRes = Ok(KvPair(KeyAt(i), ValueAt(i)))

\* C2 as amended: for every (k, v) where k holds no '=',
\* parse_kv_pair(k + "=" + v) succeeds and yields KvPair{k, v'}, where v' is v
\* up to its first '=': exactly KvPair{k, v} when v holds no '=' either.
C2_RoundTrip ==
    KvDone =>
        \A i \in 1..Len(kvIn) :
            (kvIn[i] = "=" /\ ~Contains(KeyAt(i), "="))
                => LET v == ValueAt(i)
                       cut == SubSeq(v, 1, FindFrom(v, "=", 1) - 1)
                   IN  /\ kvRes = Ok(KvPair(KeyAt(i), cut))
                       /\ ~Contains(v, "=") => kvRes = Ok(KvPair(KeyAt(i), v))

\* k + "=" + v with a non-empty k and an empty v has been parsed.
C2_Witness ==
    /\ KvDone
    /\ kvIn = <<"a", "b", "=">>
    /\ kvRes.ok

\* s has a scheme (a letter, then letters, digits, '+', '-', '.', then ':'),
\* and after the scheme of http, https, ws, wss or ftp a host: something
\* other than '/'.
IsAbsoluteUrl(s) ==
    LET t == Trim(s)
    IN  \E i \in 2..Len(t) :
            /\ t[i] = ":"
            /\ IsAlpha(t[1])
            /\ \A j \in 2..(i - 1) : IsSchemeChar(t[j])
            /\ Lower(SubSeq(t, 1, i - 1)) \in SpecialSchemes
                  => \E j \in (i + 1)..Len(t) : t[j] # "/"

UrlDone == urlRes # NotRun

\* C3: parse_url(s) succeeds exactly when s parses as an absolute URL ("abc"
\* is rejected, "http://abc.xyz" and "https://httpbin.org/post" are
\* accepted), and on success the result is s itself, not the normalised URL.
C3_ParseUrl ==
    UrlDone =>
        /\ urlRes.ok <=> IsAbsoluteUrl(urlIn)
        /\ urlRes.ok => urlRes.val = urlIn
        /\ urlIn = <<"a", "b", "c">> => ~urlRes.ok
        /\ urlIn = <<"h", "t", "t", "p", ":", "/", "/", "a", "b", "c", ".",
                     "x", "y", "z">> => urlRes.ok
        /\ urlIn = <<"h", "t", "t", "p", "s", ":", "/", "/", "h", "t", "t",
                     "p", "b", "i", "n", ".", "o", "r", "g", "/", "p", "o",
                     "s", "t">> => urlRes.ok

\* An accepted URL whose normalised form differs from what was typed.
C3_Witness ==
    /\ UrlDone
    /\ urlRes.ok
    /\ urlIn = <<"h", "t", "t", "p", ":", "/", "/", "a", "b", "c", ".", "x",
                 "y", "z">>
    /\ UrlToString(UrlParse(urlIn).val) # urlIn

(* --------------------------------------------------- claims: the program *)

\* The command line passes validation: a subcommand with a URL that has a
\* scheme (and a host where its scheme needs one) and, for post, tokens that
\* each hold a '='.
ArgsValid ==
    \/ /\ argv.cmd = "get"
       /\ Len(argv.args) = 1
       /\ IsAbsoluteUrl(argv.args[1])
    \/ /\ argv.cmd = "post"
       /\ Len(argv.args) >= 1
       /\ IsAbsoluteUrl(argv.args[1])
       /\ \A i \in 2..Len(argv.args) : Contains(argv.args[i], "=")

Exited == pc = "exit"
Responded == server.kind = "respond"

\* What follows status, blank line, headers and blank line on the output.
HeadLen == Len(server.headers) + 3
BodyItems == SubSeq(out, HeadLen + 1, Len(out))

ContentType == HeaderGet(server.headers, CONTENT_TYPE)
ContentTypeParses ==
    /\ ContentType.some
    /\ to_str(ContentType.val).ok
    /\ MimeParse(ContentType.val).ok
\* The Content-Type names type/subtype, with or without parameters.
ContentTypeIs(type, subtype) ==
    /\ ContentTypeParses
    /\ MimeParse(ContentType.val).val.type = type
    /\ MimeParse(ContentType.val).val.subtype = subtype

\* C4: the body of post maps exactly the keys of the pairs, each to the v of
\* the LAST pair with that key; no pairs give the empty map, and duplicate
\* keys never stop the request.
C4_LastWriteWins ==
    /\ (opts.cmd = "post" /\ sent >= 1) =>
          /\ DOMAIN reqBody = {opts.body[i].k : i \in 1..Len(opts.body)}
          /\ \A i \in 1..Len(opts.body) :
                (\A j \in (i + 1)..Len(opts.body) : opts.body[j].k # opts.body[i].k)
                    => reqBody[opts.body[i].k] = opts.body[i].v
          /\ opts.body = <<>> => reqBody = <<>>
    /\ (Exited /\ ArgsValid /\ argv.cmd = "post") => sent = 1

\* A post with the same key twice, with different values, has been sent.
C4_Witness ==
    /\ opts.cmd = "post"
    /\ sent = 1
    /\ Len(opts.body) = 2
    /\ opts.body[1].k = opts.body[2].k
    /\ opts.body[1].v # opts.body[2].v

\* A stage after argument parsing fails: the send, the Content-Type of the
\* response, or the read of the body.
RuntimeFailure ==
    \/ server.kind = "refuse"
    \/ /\ Responded
       /\ \/ ContentType.some /\ ~ContentTypeParses
          \/ ~server.bodyOk

\* C5: an invocation ends with exit code 2 when argument validation fails, 1
\* when a runtime stage fails (the send, an invalid Content-Type header of the
\* response, the read of the body), 0 when the response was rendered, whatever
\* its HTTP status; never with another code.
C5_ExitCodes ==
    Exited =>
        /\ exitCode \in {0, 1, 2}
        /\ (~ArgsValid /\ argv.cmd \notin {"--version", "--help"}) => exitCode = 2
        /\ (ArgsValid /\ RuntimeFailure) => exitCode = 1
        /\ (ArgsValid /\ ~RuntimeFailure) => exitCode = 0

IsHeaderItem(x) == x.sec = "header"

\* C6: the status line is printed exactly once and before any header line,
\* the header lines follow the response's iteration order, and nothing but
\* body follows the first piece of body.
C6_SectionOrder ==
    out # <<>> =>
        /\ out[1].sec = "status"
        /\ Cardinality({i \in 1..Len(out) : out[i].sec = "status"}) = 1
        /\ LET hs == SelectSeq(out, IsHeaderItem)
           IN  [i \in 1..Len(hs) |-> Header(hs[i].name, hs[i].value)]
                   = server.headers
        /\ \A i \in 1..Len(out), j \in 1..Len(out) :
               (i < j /\ out[i].sec = "body") => out[j].sec = "body"

\* A response with two different headers and a body has been rendered.
C6_Witness ==
    /\ Exited
    /\ exitCode = 0
    /\ Responded
    /\ Len(server.headers) >= 2
    /\ server.headers[1].name # server.headers[2].name
    /\ BodyItems # <<>>

\* C7: the parameters of the Content-Type play no part: application/json
\* with any parameters goes to the JSON highlighter and text/html with any
\* parameters to the HTML highlighter, as the bare types do.
C7_ParamsDiscarded ==
    (Exited /\ exitCode = 0 /\ Responded) =>
        /\ ContentTypeIs("application", "json")
              => BodyItems = print_syntect(<<>>, server.body, "json")
        /\ ContentTypeIs("text", "html")
              => BodyItems = print_syntect(<<>>, server.body, "html")

\* C8: with the Content-Type absent, another MIME type than application/json
\* and text/html, or unparseable, rendering is not aborted: the body is
\* printed verbatim, followed by one newline.
C8_VerbatimFallback ==
    ( /\ Exited
      /\ ArgsValid
      /\ Responded
      /\ server.bodyOk
      /\ ~ContentTypeIs("application", "json")
      /\ ~ContentTypeIs("text", "html") )
        => /\ exitCode = 0
           /\ BodyItems = << [sec |-> "body", text |-> server.body \o <<"\n">>] >>

\* C9: the body section of every rendered response ends with a newline, on
\* the highlighter's branch too, also for a body that is empty or does not
\* end with a line terminator.
C9_BodyEndsWithNewline ==
    (Exited /\ exitCode = 0 /\ Responded) =>
        /\ BodyItems # <<>>
        /\ LET last == BodyItems[Len(BodyItems)].text
           IN  last[Len(last)] = "\n"

\* C10: at most one request is ever sent, none before the arguments have
\* passed validation, and none after a failure of the send, of the read of
\* the body or of the rendering.
C10_AtMostOneRequest ==
    /\ sent <= 1
    /\ sent = 1 => ArgsValid
    /\ pc \in {"start", "parsed"} => sent = 0
    /\ (Exited /\ ArgsValid) => sent = 1

\* The read of the body has failed after the one request.
C10_Witness ==
    /\ Exited
    /\ exitCode = 1
    /\ sent = 1
    /\ Responded
    /\ ~server.bodyOk

====
